---- MODULE Spec2Model ----
(***************************************************************************)
(* State-machine model of the duplex voice session in src/App.tsx:         *)
(* startSession / stopSession, the remote-session callbacks (onopen,       *)
(* onmessage, onerror, onclose) and handleMessage with its playback        *)
(* scheduling and interruption handling.                                   *)
(*                                                                         *)
(* Objects are identified by the number of the startSession run that       *)
(* created them: run k creates input context k, output context k,          *)
(* microphone stream k, remote session k and script processor k.           *)
(* A ref holding null is modelled as 0.                                    *)
(***************************************************************************)
EXTENDS Integers, Sequences, FiniteSets, TLC

\* ---- bounds of the model ------------------------------------------------
MaxStarts == 2      \* startSession runs that get past the guard and the key
MaxPlayStarts == 1  \* the same, in behaviours that also deliver messages
MaxChunks == 2      \* inbound audio chunks handed to the decoder in one behaviour
MaxClock == 2       \* last tick of an output context's clock
MaxDur == 2         \* longest decoded buffer, in clock ticks
MaxText == 1        \* longest transcript accumulator, in fragments

\* ---- src/types.ts ConnectionStatus ----------------------------------------
DISCONNECTED == "DISCONNECTED"
CONNECTING == "CONNECTING"
CONNECTED == "CONNECTED"
ERROR == "ERROR"
ConnectionStatus == {DISCONNECTED, CONNECTING, CONNECTED, ERROR}

Runs == 1..MaxStarts
ChunkIds == 1..MaxChunks

\* ---- LiveServerMessage.serverContent, as handleMessage reads it -----------
\* A transcription field is <<>> when absent, else the fragment text (a
\* sequence of characters).  audio is 0 when the message has no inlineData,
\* -1 for a payload that fails to decode, d > 0 for a payload that decodes to
\* a buffer of duration d.
InFragment == <<"u">>
OutFragment == <<"m">>
LiveServerMessage ==
    [ inputTranscription : {<<>>, InFragment},
      outputTranscription : {<<>>, OutFragment},
      turnComplete : BOOLEAN,
      audio : {-1, 0} \cup (1..MaxDur),
      interrupted : BOOLEAN ]

VARIABLES
    status,              \* useState status: the value last passed to setStatus
    seenStatus,          \* the status captured by the startSession closure of the last render
    apiKey,              \* process.env.API_KEY is set
    currentInputText,    \* useState currentInputText
    currentOutputText,   \* useState currentOutputText
    audioContextRef,
    outAudioContextRef,
    nextStartTimeRef,
    activeSourcesRef,
    sessionPromiseRef,
    micStreamRef,
    scriptProcessorRef,
    run,                 \* per startSession run: where it and its remote session stand
    micLive,             \* microphone streams whose tracks are not stopped
    procConnected,       \* script processors still connected
    inCtxRunning,        \* input AudioContexts not closed
    outCtxRunning,       \* output AudioContexts not closed
    currentTime,         \* ctx.currentTime of the context outAudioContextRef holds
    sources,             \* AudioBufferSourceNodes, by the number of their chunk
    decoding,            \* handleMessage calls suspended at await decodeAudioData
    chunkCount,          \* audio chunks handed to the decoder so far
    stoppedSinceStart,   \* history: stop() ran and start() was not called since
    cursorClaimed,       \* history: the clock read for the first chunk of the running
                         \* sequence plus the durations scheduled since; -1: no sequence
    cursorExact          \* history: nothing but that sequence has moved the cursor

progVars ==
    << status, currentInputText, currentOutputText, audioContextRef,
       outAudioContextRef, nextStartTimeRef, activeSourcesRef,
       sessionPromiseRef, micStreamRef, scriptProcessorRef >>

envVars ==
    << seenStatus, apiKey, run, micLive, procConnected, inCtxRunning,
       outCtxRunning, currentTime, sources, decoding, chunkCount >>

envVarsButSources ==
    << seenStatus, apiKey, run, micLive, procConnected, inCtxRunning,
       outCtxRunning, currentTime, decoding, chunkCount >>

seqVars == << cursorClaimed, cursorExact >>

histVars == << stoppedSinceStart, cursorClaimed, cursorExact >>

vars == << progVars, envVars, histVars >>

\* A source that was never created; a source that ended or was stopped keeps
\* only its state, its node being released. History: `stale` marks a source
\* whose chunk arrived before an interruption already handled, `atOnce` one
\* that the interruption of its own message stopped as soon as it was started.
NoSource ==
    [ state |-> "none", ctx |-> 0, startAt |-> 0, began |-> 0, dur |-> 0,
      stale |-> FALSE, atOnce |-> FALSE ]

Init ==
    /\ status = DISCONNECTED
    /\ seenStatus = DISCONNECTED
    /\ apiKey \in BOOLEAN
    /\ currentInputText = <<>>
    /\ currentOutputText = <<>>
    /\ audioContextRef = 0
    /\ outAudioContextRef = 0
    /\ nextStartTimeRef = 0
    /\ activeSourcesRef = {}
    /\ sessionPromiseRef = 0
    /\ micStreamRef = 0
    /\ scriptProcessorRef = 0
    /\ run = [k \in Runs |-> "none"]
    /\ micLive = {}
    /\ procConnected = {}
    /\ inCtxRunning = {}
    /\ outCtxRunning = {}
    /\ currentTime = 0
    /\ sources = [i \in ChunkIds |-> NoSource]
    /\ decoding = {}
    /\ chunkCount = 0
    /\ stoppedSinceStart = FALSE
    /\ cursorClaimed = -1
    /\ cursorExact = TRUE

\* ---- React re-render: startSession is re-created and captures status ------
Rendered == seenStatus = status

Render ==
    /\ seenStatus # status
    /\ seenStatus' = status
    /\ UNCHANGED << progVars, apiKey, run, micLive, procConnected, inCtxRunning,
                    outCtxRunning, currentTime, sources, decoding, chunkCount,
                    histVars >>

\* ---- startSession, up to its first suspension (await getUserMedia) --------
NextRun == Cardinality({k \in Runs : run[k] # "none"}) + 1

\* startSession with the API-key check made after the audio contexts are created
startSessionKeyCheckedLate ==
    IF seenStatus # DISCONNECTED
    THEN UNCHANGED << progVars, run, inCtxRunning, outCtxRunning, currentTime >>
    ELSE /\ NextRun \in Runs
         /\ status' = IF apiKey THEN CONNECTING ELSE ERROR
         /\ audioContextRef' = NextRun
         /\ outAudioContextRef' = NextRun
         /\ inCtxRunning' = inCtxRunning \cup {NextRun}
         /\ outCtxRunning' = outCtxRunning \cup {NextRun}
         /\ currentTime' = 0
         /\ run' = [run EXCEPT ![NextRun] = IF apiKey THEN "mic" ELSE "micFailed"]
         /\ UNCHANGED << currentInputText, currentOutputText, nextStartTimeRef,
                         activeSourcesRef, sessionPromiseRef, micStreamRef,
                         scriptProcessorRef >>

startSession ==
    IF seenStatus # DISCONNECTED
    THEN UNCHANGED << progVars, run, inCtxRunning, outCtxRunning, currentTime >>
    ELSE IF ~apiKey
    THEN /\ status' = ERROR
         /\ UNCHANGED << currentInputText, currentOutputText, audioContextRef,
                         outAudioContextRef, nextStartTimeRef, activeSourcesRef,
                         sessionPromiseRef, micStreamRef, scriptProcessorRef,
                         run, inCtxRunning, outCtxRunning, currentTime >>
    ELSE /\ NextRun \in Runs
         /\ status' = CONNECTING
         /\ audioContextRef' = NextRun
         /\ outAudioContextRef' = NextRun
         /\ inCtxRunning' = inCtxRunning \cup {NextRun}
         /\ outCtxRunning' = outCtxRunning \cup {NextRun}
         /\ currentTime' = 0
         /\ run' = [run EXCEPT ![NextRun] = "mic"]
         /\ UNCHANGED << currentInputText, currentOutputText, nextStartTimeRef,
                         activeSourcesRef, sessionPromiseRef, micStreamRef,
                         scriptProcessorRef >>

Start ==
    /\ startSession
    /\ stoppedSinceStart' = FALSE
    /\ UNCHANGED seqVars
    /\ UNCHANGED << seenStatus, apiKey, micLive, procConnected, sources,
                    decoding, chunkCount >>

\* ---- stopSession ----------------------------------------------------------
\* stopSession with `micStreamRef.current = null` left out
stopSessionKeepsStream ==
    /\ status' = DISCONNECTED
    /\ micLive' = IF micStreamRef # 0 THEN micLive \ {micStreamRef} ELSE micLive
    /\ micStreamRef' = micStreamRef
    /\ procConnected' = IF scriptProcessorRef # 0
                        THEN procConnected \ {scriptProcessorRef}
                        ELSE procConnected
    /\ scriptProcessorRef' = 0
    /\ inCtxRunning' = IF audioContextRef # 0
                       THEN inCtxRunning \ {audioContextRef}
                       ELSE inCtxRunning
    /\ audioContextRef' = 0
    /\ outCtxRunning' = IF outAudioContextRef # 0
                        THEN outCtxRunning \ {outAudioContextRef}
                        ELSE outCtxRunning
    /\ outAudioContextRef' = 0
    /\ sessionPromiseRef' = 0
    /\ currentInputText' = <<>>
    /\ currentOutputText' = <<>>
    /\ UNCHANGED << nextStartTimeRef, activeSourcesRef >>

stopSession ==
    /\ status' = DISCONNECTED
    /\ micLive' = IF micStreamRef # 0 THEN micLive \ {micStreamRef} ELSE micLive
    /\ micStreamRef' = 0
    /\ procConnected' = IF scriptProcessorRef # 0
                        THEN procConnected \ {scriptProcessorRef}
                        ELSE procConnected
    /\ scriptProcessorRef' = 0
    /\ inCtxRunning' = IF audioContextRef # 0
                       THEN inCtxRunning \ {audioContextRef}
                       ELSE inCtxRunning
    /\ audioContextRef' = 0
    /\ outCtxRunning' = IF outAudioContextRef # 0
                        THEN outCtxRunning \ {outAudioContextRef}
                        ELSE outCtxRunning
    /\ outAudioContextRef' = 0
    /\ sessionPromiseRef' = 0
    /\ currentInputText' = <<>>
    /\ currentOutputText' = <<>>
    /\ UNCHANGED << nextStartTimeRef, activeSourcesRef >>

Stop ==
    /\ stopSession
    /\ stoppedSinceStart' = TRUE
    /\ UNCHANGED seqVars
    /\ UNCHANGED << seenStatus, apiKey, run, currentTime, sources, decoding,
                    chunkCount >>

\* ---- startSession, resumed after await getUserMedia -----------------------
\* Resolution: the stream is stored and ai.live.connect opens remote session k.
getUserMediaResolved(k) ==
    /\ run[k] = "mic"
    /\ micStreamRef' = k
    /\ micLive' = micLive \cup {k}
    /\ sessionPromiseRef' = k
    /\ run' = [run EXCEPT ![k] = "connecting"]
    /\ UNCHANGED << status, currentInputText, currentOutputText, audioContextRef,
                    outAudioContextRef, nextStartTimeRef, activeSourcesRef,
                    scriptProcessorRef >>

\* Rejection: the catch block of startSession.
getUserMediaRejected(k) ==
    /\ run[k] = "mic"
    /\ status' = ERROR
    /\ run' = [run EXCEPT ![k] = "micFailed"]
    /\ UNCHANGED << currentInputText, currentOutputText, audioContextRef,
                    outAudioContextRef, nextStartTimeRef, activeSourcesRef,
                    sessionPromiseRef, micStreamRef, scriptProcessorRef, micLive >>

MicResolveRun(k) ==
        /\ Rendered
        /\ getUserMediaResolved(k)
        /\ UNCHANGED << seenStatus, apiKey, procConnected, inCtxRunning,
                        outCtxRunning, currentTime, sources, decoding, chunkCount,
                        stoppedSinceStart, seqVars >>

MicRejectRun(k) ==
        /\ Rendered
        /\ getUserMediaRejected(k)
        /\ UNCHANGED << seenStatus, apiKey, procConnected, inCtxRunning,
                        outCtxRunning, currentTime, sources, decoding, chunkCount,
                        stoppedSinceStart, seqVars >>

\* ---- callbacks of remote session k ----------------------------------------
\* onopen: audioContextRef.current! is dereferenced after setStatus; when the
\* ref is null the callback throws there and no script processor is stored.
onopen(k) ==
    /\ run[k] = "connecting"
    /\ status' = CONNECTED
    /\ IF audioContextRef = 0
       THEN UNCHANGED << scriptProcessorRef, procConnected >>
       ELSE /\ scriptProcessorRef' = k
            /\ procConnected' = procConnected \cup {k}
    /\ run' = [run EXCEPT ![k] = "open"]
    /\ UNCHANGED << currentInputText, currentOutputText, audioContextRef,
                    outAudioContextRef, nextStartTimeRef, activeSourcesRef,
                    sessionPromiseRef, micStreamRef >>

onerror(k) ==
    /\ run[k] \in {"connecting", "open"}
    /\ status' = ERROR
    /\ run' = [run EXCEPT ![k] = "errored"]
    /\ UNCHANGED << currentInputText, currentOutputText, audioContextRef,
                    outAudioContextRef, nextStartTimeRef, activeSourcesRef,
                    sessionPromiseRef, micStreamRef, scriptProcessorRef >>

onclose(k) ==
    /\ run[k] \in {"open", "errored"}
    /\ stopSession
    /\ run' = [run EXCEPT ![k] = "closed"]

OnOpenRun(k) ==
        /\ Rendered
        /\ onopen(k)
        /\ UNCHANGED << seenStatus, apiKey, micLive, inCtxRunning, outCtxRunning,
                        currentTime, sources, decoding, chunkCount,
                        stoppedSinceStart, seqVars >>

OnErrorRun(k) ==
        /\ Rendered
        /\ onerror(k)
        /\ UNCHANGED << seenStatus, apiKey, micLive, procConnected, inCtxRunning,
                        outCtxRunning, currentTime, sources, decoding, chunkCount,
                        stoppedSinceStart, seqVars >>

OnCloseRun(k) ==
        /\ Rendered
        /\ onclose(k)
        /\ UNCHANGED << seenStatus, apiKey, currentTime, sources, decoding,
                        chunkCount, stoppedSinceStart, seqVars >>

\* ---- handleMessage --------------------------------------------------------
\* the clamp written without Math.max: the clock replaces the cursor
MaxIsClock(a, b) == b

Max(a, b) == IF a >= b THEN a ELSE b

\* 1. Handle Transcription
outputTextAfter(m, prev) ==
    IF m.outputTranscription # <<>> THEN prev \o m.outputTranscription ELSE prev

inputTextAfter(m, prev) ==
    IF m.outputTranscription # <<>> THEN prev
    ELSE IF m.inputTranscription # <<>> THEN prev \o m.inputTranscription
    ELSE prev

\* the interruption block with source.stop() left out
stopAllForgotten(srcs, active) == srcs

\* 3. Handle Interruptions: source.stop() on every active source
stopAll(srcs, active) ==
    [i \in ChunkIds |->
        IF i \in active /\ srcs[i].state = "playing"
        THEN [NoSource EXCEPT !.state = "stopped"]
        ELSE srcs[i]]

\* history: the decodes in flight whose chunk arrived before the message whose
\* interruption is being handled (chunks numbered below `upto`) are marked
markStale(ds, upto) ==
    {[d EXCEPT !.stale = (d.stale \/ d.id < upto)] : d \in ds}

\* decodeAudioData(decode(base64Audio), ctx, 24000, 1): a buffer of the
\* payload's duration, or a rejection for a malformed payload
decodeAudioData(audio) ==
    IF audio > 0 THEN [ok |-> TRUE, duration |-> audio]
    ELSE [ok |-> FALSE, duration |-> 0]

\* handleMessage with the clamp of the cursor to the output clock left out
handleMessageNoClamp(m) ==
    /\ currentOutputText' = outputTextAfter(m, currentOutputText)
    /\ currentInputText' = inputTextAfter(m, currentInputText)
    /\ IF m.audio # 0 /\ outAudioContextRef # 0
       THEN /\ nextStartTimeRef' = nextStartTimeRef
            /\ decoding' = decoding \cup
                   {[id |-> chunkCount + 1, ctx |-> outAudioContextRef,
                     audio |-> m.audio, interrupted |-> m.interrupted,
                     stale |-> FALSE]}
            /\ chunkCount' = chunkCount + 1
            /\ UNCHANGED << activeSourcesRef, sources >>
       ELSE IF m.interrupted
       THEN /\ sources' = stopAll(sources, activeSourcesRef)
            /\ activeSourcesRef' = {}
            /\ nextStartTimeRef' = 0
            /\ decoding' = markStale(decoding, chunkCount + 1)
            /\ UNCHANGED chunkCount
       ELSE UNCHANGED << nextStartTimeRef, activeSourcesRef, sources,
                        decoding, chunkCount >>
    /\ UNCHANGED << status, audioContextRef, outAudioContextRef,
                    sessionPromiseRef, micStreamRef, scriptProcessorRef >>

\* handleMessage up to its first suspension, or to its end when the message
\* has no audio to decode.
handleMessage(m) ==
    /\ currentOutputText' = outputTextAfter(m, currentOutputText)
    /\ currentInputText' = inputTextAfter(m, currentInputText)
    /\ IF m.audio # 0 /\ outAudioContextRef # 0
       THEN /\ nextStartTimeRef' = Max(nextStartTimeRef, currentTime)
            /\ decoding' = decoding \cup
                   {[id |-> chunkCount + 1, ctx |-> outAudioContextRef,
                     audio |-> m.audio, interrupted |-> m.interrupted,
                     stale |-> FALSE]}
            /\ chunkCount' = chunkCount + 1
            /\ UNCHANGED << activeSourcesRef, sources >>
       ELSE IF m.interrupted
       THEN /\ sources' = stopAll(sources, activeSourcesRef)
            /\ activeSourcesRef' = {}
            /\ nextStartTimeRef' = 0
            /\ decoding' = markStale(decoding, chunkCount + 1)
            /\ UNCHANGED chunkCount
       ELSE UNCHANGED << nextStartTimeRef, activeSourcesRef, sources,
                        decoding, chunkCount >>
    /\ UNCHANGED << status, audioContextRef, outAudioContextRef,
                    sessionPromiseRef, micStreamRef, scriptProcessorRef >>

\* history of the running sequence of chunks, kept beside handleMessage: a
\* sequence begins with a decodable chunk received while the cursor is 0, and
\* ends with an interruption; a chunk that will not decode ends it as well
seqAfterMessage(m) ==
    IF m.audio # 0 /\ outAudioContextRef # 0
    THEN IF ~decodeAudioData(m.audio).ok
         THEN cursorClaimed' = -1 /\ cursorExact' = TRUE
         ELSE IF cursorClaimed = -1
         THEN /\ cursorClaimed' = IF nextStartTimeRef = 0 THEN currentTime ELSE -1
              /\ cursorExact' = TRUE
         ELSE /\ cursorClaimed' = cursorClaimed
              /\ cursorExact' = (cursorExact /\ currentTime <= nextStartTimeRef)
    ELSE IF m.interrupted
    THEN cursorClaimed' = -1 /\ cursorExact' = TRUE
    ELSE UNCHANGED seqVars

Deliver(m) ==
        /\ Rendered
        /\ \E k \in Runs : run[k] = "open"
        /\ (m.audio # 0 /\ outAudioContextRef # 0) => chunkCount < MaxChunks
        /\ Len(currentInputText) + Len(m.inputTranscription) <= MaxText
        /\ Len(currentOutputText) + Len(m.outputTranscription) <= MaxText
        /\ handleMessage(m)
        /\ seqAfterMessage(m)
        /\ UNCHANGED << seenStatus, apiKey, run, micLive, procConnected,
                        inCtxRunning, outCtxRunning, currentTime,
                        stoppedSinceStart >>

\* the source created, started and registered after a successful decode
newSource(d, buffer) ==
    [ state |-> "playing", ctx |-> d.ctx, startAt |-> nextStartTimeRef,
      began |-> IF d.ctx = outAudioContextRef
                THEN Max(nextStartTimeRef, currentTime)
                ELSE nextStartTimeRef,
      dur |-> buffer.duration, stale |-> d.stale, atOnce |-> FALSE ]

\* the resumed handler with the interruption block placed before the audio
\* block: the active sources are stopped first, then the chunk is scheduled
handleMessageResumedInterruptionFirst(d) ==
    LET audioBuffer == decodeAudioData(d.audio)
        ok == audioBuffer.ok
        srcs0 == IF d.interrupted THEN stopAll(sources, activeSourcesRef)
                 ELSE sources
        next0 == IF d.interrupted THEN 0 ELSE nextStartTimeRef
        active0 == IF d.interrupted THEN {} ELSE activeSourcesRef
        rest == decoding \ {d}
    IN  /\ sources' = IF ok THEN [srcs0 EXCEPT ![d.id] = newSource(d, audioBuffer)]
                      ELSE srcs0
        /\ activeSourcesRef' = IF ok THEN active0 \cup {d.id} ELSE active0
        /\ nextStartTimeRef' = IF ok THEN next0 + audioBuffer.duration ELSE next0
        /\ decoding' = IF d.interrupted THEN markStale(rest, d.id) ELSE rest
        /\ UNCHANGED << status, currentInputText, currentOutputText,
                        audioContextRef, outAudioContextRef, sessionPromiseRef,
                        micStreamRef, scriptProcessorRef >>

\* handleMessage resumed after await decodeAudioData, to its end
handleMessageResumed(d) ==
    LET audioBuffer == decodeAudioData(d.audio)
        ok == audioBuffer.ok
        srcs1 == IF ok THEN [sources EXCEPT ![d.id] = newSource(d, audioBuffer)]
                 ELSE sources
        next1 == IF ok THEN nextStartTimeRef + audioBuffer.duration
                 ELSE nextStartTimeRef
        active1 == IF ok THEN activeSourcesRef \cup {d.id} ELSE activeSourcesRef
        rest == decoding \ {d}
    IN  /\ IF d.interrupted
           THEN /\ sources' = [stopAll(srcs1, active1) EXCEPT ![d.id].atOnce = ok]
                /\ activeSourcesRef' = {}
                /\ nextStartTimeRef' = 0
                /\ decoding' = markStale(rest, d.id)
           ELSE /\ sources' = srcs1
                /\ activeSourcesRef' = active1
                /\ nextStartTimeRef' = next1
                /\ decoding' = rest
        /\ UNCHANGED << status, currentInputText, currentOutputText,
                        audioContextRef, outAudioContextRef, sessionPromiseRef,
                        micStreamRef, scriptProcessorRef >>

\* history of the running sequence, kept beside the resumed handler: the
\* duration of a chunk of the sequence is added; the source of a chunk that
\* arrived before an interruption moves the cursor from outside the sequence
seqAfterResumed(d) ==
    IF d.interrupted
    THEN cursorClaimed' = -1 /\ cursorExact' = TRUE
    ELSE IF cursorClaimed = -1 \/ ~decodeAudioData(d.audio).ok
    THEN UNCHANGED seqVars
    ELSE IF d.stale
    THEN cursorClaimed' = cursorClaimed /\ cursorExact' = FALSE
    ELSE /\ cursorClaimed' = cursorClaimed + decodeAudioData(d.audio).duration
         /\ cursorExact' = cursorExact

Resume(d) ==
        /\ Rendered
        /\ handleMessageResumed(d)
        /\ seqAfterResumed(d)
        /\ UNCHANGED << seenStatus, apiKey, run, micLive, procConnected,
                        inCtxRunning, outCtxRunning, currentTime, chunkCount,
                        stoppedSinceStart >>

\* ---- the output clock and the 'ended' event of a source -------------------
\* The clock of the context is read by handleMessage and decides when a source
\* ends; it is left at rest while nothing can read it.
ClockObserved ==
    \/ \E k \in Runs : run[k] = "open"
    \/ decoding # {}
    \/ \E i \in ChunkIds : sources[i].state = "playing" /\ sources[i].ctx = outAudioContextRef

Tick ==
        /\ Rendered
        /\ outAudioContextRef # 0
        /\ ClockObserved
        /\ currentTime < MaxClock
        /\ currentTime' = currentTime + 1
        /\ UNCHANGED << progVars, seenStatus, apiKey, run, micLive,
                        procConnected, inCtxRunning, outCtxRunning, sources,
                        decoding, chunkCount, histVars >>

onended(i) ==
    /\ sources[i].state = "playing"
    /\ sources[i].ctx = outAudioContextRef
    /\ currentTime >= sources[i].began + sources[i].dur
    /\ sources' = [sources EXCEPT ![i] = [NoSource EXCEPT !.state = "ended"]]
    /\ activeSourcesRef' = activeSourcesRef \ {i}

Ended(i) ==
        /\ Rendered
        /\ onended(i)
        /\ UNCHANGED << status, currentInputText, currentOutputText,
                        audioContextRef, outAudioContextRef, nextStartTimeRef,
                        sessionPromiseRef, micStreamRef, scriptProcessorRef,
                        envVarsButSources, stoppedSinceStart, seqVars >>

MicResolve == \E k \in Runs : MicResolveRun(k)
MicReject == \E k \in Runs : MicRejectRun(k)
OnOpen == \E k \in Runs : OnOpenRun(k)
OnError == \E k \in Runs : OnErrorRun(k)
OnClose == \E k \in Runs : OnCloseRun(k)
OnMessage == \E m \in LiveServerMessage : Deliver(m)
DecodeDone == \E d \in decoding : Resume(d)
SourceEnded == \E i \in ChunkIds : Ended(i)

(***************************************************************************)
(* Properties                                                              *)
(***************************************************************************)
Handles == << micStreamRef, scriptProcessorRef, audioContextRef, outAudioContextRef >>
NoHandles == << 0, 0, 0, 0 >>
Devices == << micLive, procConnected, inCtxRunning, outCtxRunning >>
NoDevices == << {}, {}, {}, {} >>

\* C1: once stop() has run and start() has not been called since, the status is
\* DISCONNECTED and no device handle is populated, whatever resolves or opens
\* late.
C1_StopConverges ==
    stoppedSinceStart => (status = DISCONNECTED /\ Handles = NoHandles)

\* C2: whenever the status is DISCONNECTED or ERROR, the microphone stream, the
\* script processor and both audio contexts are absent and released.
C2_ReleasedWhenDown ==
    status \in {DISCONNECTED, ERROR} =>
        (Handles = NoHandles /\ Devices = NoDevices)

\* C3: at most one remote session is being opened or open at any time.
OpenSessions == {k \in Runs : run[k] \in {"connecting", "open"}}

C3_OneSession == Cardinality(OpenSessions) <= 1

\* C4: a start() call made while the status is CONNECTING or CONNECTED changes
\* nothing: no status change, no handle, no context, no stream, no new run.
C4_NoOpStart ==
    [][(status \in {CONNECTING, CONNECTED} /\ Start)
         => UNCHANGED << progVars, run, Devices >>]_vars

\* C5: stop() from any state releases nothing twice and leaves the status
\* DISCONNECTED with the stream, processor, contexts and session handle
\* cleared; from a state stop() has left, stop() changes nothing.
StopCleared ==
    /\ status = DISCONNECTED
    /\ Handles = NoHandles
    /\ sessionPromiseRef = 0
    /\ currentInputText = <<>>
    /\ currentOutputText = <<>>

NoDoubleRelease ==
    /\ micStreamRef # 0 => micStreamRef \in micLive
    /\ scriptProcessorRef # 0 => scriptProcessorRef \in procConnected
    /\ audioContextRef # 0 => audioContextRef \in inCtxRunning
    /\ outAudioContextRef # 0 => outAudioContextRef \in outCtxRunning

C5_StopIdempotent ==
    [][Stop => /\ NoDoubleRelease
               /\ StopCleared'
               /\ StopCleared => UNCHANGED << progVars, Devices >>]_vars

\* C5 witness: stop() ran on an open, connected session and tore it down.
C5_Witness ==
    /\ stoppedSinceStart
    /\ \E k \in Runs : run[k] = "open" /\ k \notin outCtxRunning /\ k \notin micLive
    /\ StopCleared

\* C6: stop() leaves the cursor at 0, the active-source set empty and both
\* transcript accumulators empty.
C6_StopResetsFields ==
    [][Stop => /\ nextStartTimeRef' = 0
               /\ activeSourcesRef' = {}
               /\ currentInputText' = <<>>
               /\ currentOutputText' = <<>>]_vars

\* C7: no chunk that arrived before a handled interruption is playing or in
\* the active-source set.
C7_BargeInCancelsEarlier ==
    \A i \in ChunkIds :
        (sources[i].state = "playing" \/ i \in activeSourcesRef)
            => ~sources[i].stale

\* C8: a message is handled only when no earlier message's handling is still
\* suspended, and the chunk whose source is started is the oldest one awaiting
\* its decode.
C8_OneAtATimeInOrder ==
    [][/\ (\E m \in LiveServerMessage : Deliver(m)) => decoding = {}
       /\ \A d \in decoding :
            Resume(d) => \A e \in decoding : e.id >= d.id]_vars

\* C9: a message carrying an input and an output transcription extends the
\* input accumulator by the one and the output accumulator by the other.
C9_BothTranscriptions ==
    [][\A m \in LiveServerMessage :
         (Deliver(m) /\ m.inputTranscription # <<>> /\ m.outputTranscription # <<>>)
            => /\ currentInputText' = currentInputText \o m.inputTranscription
               /\ currentOutputText' = currentOutputText \o m.outputTranscription]_vars

\* C10: the step that handles an interruption signal leaves the active-source
\* set empty and the cursor at 0, and none of the sources that were active is
\* still playing; the signal repeated in that state changes none of them.
SignalAlone ==
    \E m \in LiveServerMessage :
        /\ m.interrupted
        /\ ~(m.audio # 0 /\ outAudioContextRef # 0)
        /\ Deliver(m)

Interruption ==
    \/ SignalAlone
    \/ \E d \in decoding : d.interrupted /\ Resume(d)

C10_InterruptionClears ==
    [][Interruption =>
         /\ activeSourcesRef' = {}
         /\ nextStartTimeRef' = 0
         /\ \A i \in activeSourcesRef : sources'[i].state = "stopped"
         /\ (SignalAlone /\ activeSourcesRef = {} /\ nextStartTimeRef = 0)
               => UNCHANGED << sources, activeSourcesRef, nextStartTimeRef >>]_vars

\* C10 witness: an interruption has force-stopped a scheduled source after
\* another one had ended naturally.
C10_Witness ==
    /\ activeSourcesRef = {}
    /\ nextStartTimeRef = 0
    /\ \E i \in ChunkIds : sources[i].state = "stopped"
    /\ \E i \in ChunkIds : sources[i].state = "ended"

\* C11: handling a message whose audio chunk fails to decode leaves the cursor,
\* the active-source set and the status as they were before the message: both
\* the part of the handler before the decode and the part after its failure
\* leave them unchanged.
DecodeFails(audio) == audio # 0 /\ ~decodeAudioData(audio).ok

C11_DecodeFailureLocal ==
    [][/\ \A m \in LiveServerMessage :
            (Deliver(m) /\ outAudioContextRef # 0 /\ DecodeFails(m.audio)
                 /\ ~m.interrupted)
               => UNCHANGED << nextStartTimeRef, activeSourcesRef, status >>
       /\ \A d \in decoding :
            (Resume(d) /\ DecodeFails(d.audio) /\ ~d.interrupted)
               => UNCHANGED << nextStartTimeRef, activeSourcesRef, status >>]_vars

\* C12: the step in which the microphone acquisition fails leaves the status
\* ERROR and opens no session; no run begins but by a start() call; and once
\* the failure has been rendered, a start() call begins a fresh attempt, the
\* status becoming CONNECTING.
MicFailed == \E k \in Runs : run[k] = "micFailed"

C12_RetryAfterMicFailure ==
    /\ [][/\ MicReject => (status' = ERROR /\ OpenSessions' = OpenSessions)
          /\ run' # run => (Start \/ MicResolve \/ MicReject \/ OnOpen
                              \/ OnError \/ OnClose)
          /\ NextRun' # NextRun => Start]_vars
    /\ []((MicFailed /\ status = ERROR /\ Rendered /\ apiKey /\ NextRun \in Runs)
             => ENABLED (Start /\ status' = CONNECTING))

\* C13: with no API key, a start() call made from DISCONNECTED leaves the
\* status ERROR, and at no time is there a microphone stream, a script
\* processor, an audio context, a session handle or a run of the connection
\* sequence.
C13_NoKeyNoResources ==
    /\ [][(Start /\ ~apiKey /\ seenStatus = DISCONNECTED) => status' = ERROR]_vars
    /\ [](~apiKey => /\ Handles = NoHandles
                     /\ Devices = NoDevices
                     /\ sessionPromiseRef = 0
                     /\ \A k \in Runs : run[k] = "none"
                     /\ status \in {DISCONNECTED, ERROR})

\* C13 witness: start() was called without a key and the ERROR status rendered.
C13_Witness ==
    /\ ~apiKey
    /\ status = ERROR
    /\ seenStatus = ERROR

\* C14 as claimed: once every chunk received so far has been scheduled in one
\* sequence that began at cursor 0, with no interruption, the cursor is the
\* output clock at the scheduling of the first chunk plus the durations of the
\* chunks. The first source is taken to have been started at the clock value
\* read for its chunk, the clock standing at that value, so that the clock at
\* the first chunk's scheduling is the same at its receipt and at its start.
RECURSIVE SumDur(_)
SumDur(n) == IF n = 0 THEN 0 ELSE sources[n].dur + SumDur(n - 1)

C14_CursorIsSum ==
    (/\ cursorClaimed # -1
     /\ decoding = {}
     /\ chunkCount >= 1
     /\ \A i \in 1..chunkCount :
           sources[i].state = "playing" /\ ~sources[i].stale
     /\ sources[1].startAt = cursorClaimed - SumDur(chunkCount)
     /\ sources[1].began = sources[1].startAt)
        => nextStartTimeRef = sources[1].startAt + SumDur(chunkCount)

\* C14 amended: the cursor is at least the clock read for the first chunk plus
\* the durations scheduled since, and equals it as long as the clock had not
\* passed the cursor when a later chunk was received and no chunk from before
\* an interruption was scheduled meanwhile.
C14_CursorAtLeastSum ==
    cursorClaimed # -1
        => /\ nextStartTimeRef >= cursorClaimed
           /\ cursorExact => nextStartTimeRef = cursorClaimed

\* C14 witness: two chunks of one sequence are scheduled, the second received
\* after the clock had passed the cursor, which now exceeds the sum.
C14_Witness ==
    /\ cursorClaimed # -1
    /\ ~cursorExact
    /\ decoding = {}
    /\ chunkCount = 2
    /\ \A i \in ChunkIds : sources[i].state \in {"playing", "ended"}
    /\ \A i \in ChunkIds : ~sources[i].stale
    /\ nextStartTimeRef > cursorClaimed

\* C15: when a decoded chunk's source is started on the live output context,
\* it is started at the larger of the cursor and the output clock as they are
\* at that moment, and the cursor becomes that start time plus the duration.
C15_StartAtClamped ==
    [][\A d \in decoding :
         (Resume(d) /\ decodeAudioData(d.audio).ok /\ ~d.interrupted
              /\ d.ctx = outAudioContextRef)
            => LET startAt == Max(nextStartTimeRef, currentTime)
               IN  /\ sources'[d.id].startAt = startAt
                   /\ nextStartTimeRef' = startAt + decodeAudioData(d.audio).duration]_vars

\* C16: while the status is CONNECTED, every step that is not the handling of
\* an interruption signal leaves the cursor at least where it was.
C16_CursorMonotone ==
    [][(status = CONNECTED /\ ~Interruption)
          => nextStartTimeRef' >= nextStartTimeRef]_vars

\* C16 witness: connected, with the cursor raised by the clamp to the clock and
\* then advanced by a scheduled chunk, after an earlier decode had failed.
C16_Witness ==
    /\ status = CONNECTED
    /\ chunkCount = 2
    /\ decoding = {}
    /\ sources[1].state = "none"
    /\ sources[2].state = "playing"
    /\ sources[2].startAt > 0
    /\ nextStartTimeRef = sources[2].startAt + sources[2].dur

\* C17: the active-source set is exactly the set of sources that were started
\* and have neither ended, nor been stopped by an interruption, nor lost their
\* output context to stop() or the remote close.
C17_ActiveSetExact ==
    activeSourcesRef =
        {i \in ChunkIds : /\ sources[i].state = "playing"
                          /\ sources[i].ctx \in outCtxRunning}

\* C18: a message carrying an audio chunk and the interruption signal is
\* handled in the order transcripts, audio, interruption: the step up to the
\* decode extends the transcripts and stops nothing yet; the step after the
\* decode starts the chunk's source and then stops it, leaving the
\* active-source set empty and the cursor at 0.
C18_AudioThenInterruption ==
    [][/\ \A m \in LiveServerMessage :
            (Deliver(m) /\ m.interrupted /\ m.audio # 0 /\ outAudioContextRef # 0)
               => /\ currentOutputText' = outputTextAfter(m, currentOutputText)
                  /\ currentInputText' = inputTextAfter(m, currentInputText)
                  /\ UNCHANGED << sources, activeSourcesRef >>
                  /\ nextStartTimeRef' >= nextStartTimeRef
       /\ \A d \in decoding :
            (Resume(d) /\ d.interrupted)
               => /\ activeSourcesRef' = {}
                  /\ nextStartTimeRef' = 0
                  /\ decodeAudioData(d.audio).ok
                        => sources'[d.id].state = "stopped"]_vars

\* C18 witness: a source was started and stopped by the interruption carried
\* by its own message, while another source was playing.
C18_Witness ==
    /\ activeSourcesRef = {}
    /\ nextStartTimeRef = 0
    /\ sources[1].state = "stopped" /\ ~sources[1].atOnce
    /\ sources[2].state = "stopped" /\ sources[2].atOnce

\* C19: two sources of the live output context, started with no interruption
\* between them, play over intervals that do not overlap.
PlaysOn(i) ==
    /\ sources[i].state = "playing"
    /\ sources[i].ctx = outAudioContextRef
    /\ ~sources[i].stale

C19_NoOverlap ==
    \A i, j \in ChunkIds :
        (i # j /\ PlaysOn(i) /\ PlaysOn(j))
            => \/ sources[i].began + sources[i].dur <= sources[j].began
               \/ sources[j].began + sources[j].dur <= sources[i].began

\* C20: from stop() until the next start() no playback source is started and
\* none is added to the active-source set.
C20_NothingStartsAfterStop ==
    [][(stoppedSinceStart /\ stoppedSinceStart')
          => /\ activeSourcesRef' \subseteq activeSourcesRef
             /\ \A i \in ChunkIds :
                  sources'[i].state = "playing" => sources[i].state = "playing"]_vars

\* startSession while messages are modelled: fewer runs are followed
StartPlay ==
    /\ (seenStatus = DISCONNECTED /\ apiKey) => NextRun <= MaxPlayStarts
    /\ Start

\* ---- the session alone: start, stop and the callbacks of the session ------
NextSession ==
    \/ Render
    \/ Start
    \/ Stop
    \/ MicResolve
    \/ MicReject
    \/ OnOpen
    \/ OnError
    \/ OnClose

SpecSession == Init /\ [][NextSession]_vars

\* ---- the session with its inbound messages and playback -------------------
Next ==
    \/ Render
    \/ StartPlay
    \/ Stop
    \/ MicResolve
    \/ MicReject
    \/ OnOpen
    \/ OnError
    \/ OnClose
    \/ OnMessage
    \/ DecodeDone
    \/ Tick
    \/ SourceEnded

Spec == Init /\ [][Next]_vars
====
